---- MODULE Spec2Model ----
(***************************************************************************)
(* Model of build_graph.py: main() and the recursive explore_related().    *)
(*                                                                         *)
(* An article name is a tuple of characters, so that the path clean-up     *)
(* article.replace("/", "-") is computed and not assumed injective.  An    *)
(* edge list is a bag (multiset) of names: the code's lists are only ever  *)
(* concatenated and collapsed with list(set(...)), whose element order is  *)
(* not determined, so the model keeps the multiplicities and no order.     *)
(* A recursive call is a frame pushed on `stack`.                          *)
(***************************************************************************)
EXTENDS Bags, FiniteSets, Integers, Sequences, TLC

\* Largest --max_depth explored.
MaxDepth == 2

\* ------------------------------------------------------------------------
\* Universe of inputs
\* ------------------------------------------------------------------------
nA == <<"A">>
nB == <<"B">>
nPsQ == <<"P", "/", "Q">>
nPdQ == <<"P", "-", "Q">>
Names == {nA, nB, nPsQ, nPdQ}

Locators == {"u1", "u2"}

\* An outbound link as extracted from a page: (tag.text, tag["href"], True).
Link(n, u) == <<n, u, TRUE>>

\* The pages the site can serve: the outbound links in document order.
Pages ==
  { <<>>,
    <<Link(nPsQ, "u1"), Link(nPsQ, "u1")>>,
    <<Link(nPsQ, "u1"), Link(nPdQ, "u2")>>,
    <<Link(nB, "u1"), Link(nPsQ, "u2")>>,
    <<Link(nPdQ, "u1")>>,
    <<Link(nA, "u2"), Link(nPsQ, "u2")>> }

\* An HTTP response: status code and body.
Responses == [status : {200}, links : Pages] \cup {[status |-> 404, links |-> <<>>]}

\* A file of the local store: present with its links, or absent.
NoFile == [exists |-> FALSE, links |-> <<>>]
File(p) == [exists |-> TRUE, links |-> p]
Files == {File(p) : p \in Pages} \cup {NoFile}

EmptyMap == [x \in {} |-> x]

\* ------------------------------------------------------------------------
\* Pure helpers
\* ------------------------------------------------------------------------
\* article.replace("/", "-")
Replace(s) == [i \in DOMAIN s |-> IF s[i] = "/" THEN "-" ELSE s[i]]

\* os.path.join(related_articles_folder, article_cleaned + ".html")
ArticlePath(article, is_term) ==
  [dir |-> IF is_term THEN "term" ELSE "article",
   file |-> Replace(article) \o <<".html">>]

\* download.py: os.path.join(folder_path, name + ".html"); folder_path is the
\* category folder of the seed, never the "term" or "article" folder.
SeedPath(name) == [dir |-> name[1], file |-> name \o <<".html">>]

Paths == {ArticlePath(n, t) : n \in Names, t \in BOOLEAN} \cup {SeedPath(nA), SeedPath(nB)}

\* The seed registry written by download.py (article_map.json), in file order.
SeedOrder == <<nA, nB>>
SeedMap ==
  (nA :> [path |-> SeedPath(nA), link |-> "u1"]) @@
  (nB :> [path |-> SeedPath(nB), link |-> "u2"])

\* [new_article[0] for new_article in outbound_links] as a bag of names.
RECURSIVE NamesOf(_)
NamesOf(links) ==
  IF links = <<>> THEN EmptyBag
  ELSE SetToBag({Head(links)[1]}) (+) NamesOf(Tail(links))

\* article not in list(article_map.keys())
Unseen(map, article) == article \notin DOMAIN map

\* if restart or article_unseen
ShouldFetchAlways(r, unseen) == TRUE
ShouldFetch(r, unseen) == r \/ unseen

\* Lines 67-86: the registry after the entry block of explore_related.
RegisterOverwrite(map, article, url, is_term) ==
  (article :> [path |-> ArticlePath(article, is_term), link |-> url]) @@ map
Register(map, article, url, is_term) ==
  IF Unseen(map, article)
  THEN map @@ (article :> [path |-> ArticlePath(article, is_term), link |-> url])
  ELSE map

\* download.get_article: write the body only on status 200.
GetArticle(w, d, link, path) ==
  IF w[link].status # 200 THEN d
  ELSE [d EXCEPT ![path] = File(w[link].links)]

\* Line 104: the graph submap returned when the local copy is missing.
MissingResultKeyed(article) == article :> EmptyBag
MissingResult(article) == EmptyMap

\* Lines 144-151: record the outbound names of `article`.
AddEdges(gs, article, names) ==
  IF article \in DOMAIN gs
  THEN [gs EXCEPT ![article] = @ (+) names]
  ELSE gs @@ (article :> names)

\* if depth > 0
ShouldRecurseAtZero(d) == d >= 0
ShouldRecurseAboveOne(d) == d > 1
ShouldRecurse(d) == d > 0

\* depth - 1
ChildDepthSame(d) == d
ChildDepth(d) == d - 1

\* dict.update
Update(m, sub) == sub @@ m

\* Lines 178-182 and 305-309: merge a returned graph submap into an accumulator.
MergeGraphOverwrite(acc, delta) == delta @@ acc
MergeGraph(acc, delta) ==
  [k \in DOMAIN acc \cup DOMAIN delta |->
     IF k \in DOMAIN acc /\ k \in DOMAIN delta THEN acc[k] (+) delta[k]
     ELSE IF k \in DOMAIN acc THEN acc[k] ELSE delta[k]]

\* Lines 196-197 and 323-324: graph[key] = list(set(value)).
DedupNone(g) == g
Dedup(g) == [k \in DOMAIN g |-> SetToBag(BagToSet(g[k]))]

\* Line 272: graph = {article: list() for article in article_map}
InitGraphEmpty(map) == EmptyMap
InitGraph(map) == [a \in DOMAIN map |-> EmptyBag]

\* ------------------------------------------------------------------------
\* State
\* ------------------------------------------------------------------------
VARIABLES
  web,           \* Locators -> Responses: what the site serves
  disk,          \* Paths -> Files: the local store
  restart,       \* --restart
  depth,         \* --max_depth
  article_map,   \* the loaded seed registry
  seedOrder,     \* list(article_map.keys())
  keyOrder,      \* key order of expanded_map (dict insertion order)
  expanded_map,  \* the working registry
  graph,         \* the graph accumulator of main
  seedIdx,       \* position of main's loop in seedOrder
  stack,         \* frames of the active explore_related calls
  pc,            \* "loop" | "done"
  fetchCount,    \* history: get_article invocations per name
  refetched,     \* history: names fetched while already registered
  fetchFailed,   \* history: some get_article got a non-200 response
  contribs,      \* history: per name, the <<caller, names parsed>> of its visits
  deepTargets,   \* history: names listed by a call that ran with depth > 0
  run,           \* 1 | 2 : first run, or the run over the first run's registry
  graph1,        \* history: the graph written by run 1
  map1           \* history: the registry written by run 1

vars == <<web, disk, restart, depth, article_map, seedOrder, keyOrder,
          expanded_map, graph, seedIdx, stack, pc, fetchCount, refetched,
          fetchFailed, contribs, deepTargets, run, graph1, map1>>

inputs == <<web, restart, depth>>
history1 == <<run, graph1, map1>>

Init ==
  /\ web \in [Locators -> Responses]
  /\ \E fa \in Files, fb \in Files :
       disk = [p \in Paths |-> IF p = SeedPath(nA) THEN fa
                               ELSE IF p = SeedPath(nB) THEN fb ELSE NoFile]
  /\ restart \in BOOLEAN
  /\ depth \in 0..MaxDepth
  /\ article_map = SeedMap
  /\ seedOrder = SeedOrder
  /\ keyOrder = SeedOrder
  /\ expanded_map = article_map
  /\ graph = InitGraph(article_map)
  /\ seedIdx = 1
  /\ stack = <<>>
  /\ pc = "loop"
  /\ fetchCount = [n \in Names |-> 0]
  /\ refetched = {}
  /\ fetchFailed = FALSE
  /\ contribs = [n \in Names |-> {}]
  /\ deepTargets = {}
  /\ run = 1
  /\ graph1 = EmptyMap
  /\ map1 = EmptyMap

\* ------------------------------------------------------------------------
\* explore_related, lines 50-151: entry of a call, up to the recursion loop.
\* `below` is the stack of the callers.
\* ------------------------------------------------------------------------
Enter(article, url, is_term, d, below) ==
  LET unseen == Unseen(expanded_map, article)
      fetch == ShouldFetch(restart, unseen)
      map == Register(expanded_map, article, url, is_term)
      sub == IF unseen THEN article :> map[article] ELSE EmptyMap
      path == map[article].path
      dsk == IF fetch THEN GetArticle(web, disk, url, path) ELSE disk
      present == dsk[path].exists
      links == dsk[path].links
      parent == IF below = <<>> THEN <<>> ELSE below[Len(below)].article
      frame == [article |-> article, article_url |-> url, depth |-> d,
                article_unseen |-> unseen, article_submap |-> sub,
                graph_submap |-> IF present
                                 THEN AddEdges(EmptyMap, article, NamesOf(links))
                                 ELSE MissingResult(article),
                outbound_links |-> IF present THEN links ELSE <<>>,
                idx |-> 1, calls |-> 0, skipped |-> 0,
                missing |-> ~present,
                pc |-> IF present THEN "loop" ELSE "ret"]
  IN /\ expanded_map' = map
     /\ keyOrder' = IF unseen THEN Append(keyOrder, article) ELSE keyOrder
     /\ disk' = dsk
     /\ stack' = Append(below, frame)
     /\ fetchCount' = IF fetch THEN [fetchCount EXCEPT ![article] = @ + 1]
                      ELSE fetchCount
     /\ refetched' = IF fetch /\ ~unseen THEN refetched \cup {article} ELSE refetched
     /\ fetchFailed' = (fetchFailed \/ (fetch /\ web[url].status # 200))
     /\ contribs' = IF present
                    THEN [contribs EXCEPT ![article] =
                            @ \cup {<<parent, BagToSet(NamesOf(links))>>}]
                    ELSE contribs
     /\ deepTargets' = IF present /\ d > 0
                       THEN deepTargets \cup BagToSet(NamesOf(links))
                       ELSE deepTargets

Top == stack[Len(stack)]
Below == SubSeq(stack, 1, Len(stack) - 1)

\* main, lines 284-289: the seed's local file is missing, skip it.
MainSkip ==
  /\ pc = "loop" /\ stack = <<>> /\ seedIdx <= Len(seedOrder)
  /\ ~disk[article_map[seedOrder[seedIdx]].path].exists
  /\ seedIdx' = seedIdx + 1
  /\ UNCHANGED <<inputs, history1, disk, article_map, seedOrder, keyOrder,
                 expanded_map, graph, stack, pc, fetchCount, refetched,
                 fetchFailed, contribs, deepTargets>>

\* main, lines 293-301: call explore_related for the seed.
MainCall ==
  /\ pc = "loop" /\ stack = <<>> /\ seedIdx <= Len(seedOrder)
  /\ LET article == seedOrder[seedIdx]
     IN /\ disk[article_map[article].path].exists
        /\ Enter(article, article_map[article].link, TRUE, depth, <<>>)
  /\ UNCHANGED <<inputs, history1, article_map, seedOrder, graph, seedIdx, pc>>

\* explore_related, lines 159-174: the recursive call for the next link.
Recurse ==
  /\ stack # <<>> /\ Top.pc = "loop"
  /\ ShouldRecurse(Top.depth) /\ Top.idx <= Len(Top.outbound_links)
  /\ LET l == Top.outbound_links[Top.idx]
         caller == [Top EXCEPT !.calls = @ + 1]
     IN Enter(l[1], l[2], l[3], ChildDepth(Top.depth), Append(Below, caller))
  /\ UNCHANGED <<inputs, history1, article_map, seedOrder, graph, seedIdx, pc>>

\* explore_related, lines 196-200: the loop is over (or was not entered);
\* collapse the edge lists and return.
Finish ==
  /\ stack # <<>> /\ Top.pc = "loop"
  /\ ~(ShouldRecurse(Top.depth) /\ Top.idx <= Len(Top.outbound_links))
  /\ stack' = Append(Below, [Top EXCEPT !.graph_submap = Dedup(@), !.pc = "ret"])
  /\ UNCHANGED <<inputs, history1, disk, article_map, seedOrder, keyOrder,
                 expanded_map, graph, seedIdx, pc, fetchCount, refetched,
                 fetchFailed, contribs, deepTargets>>

\* explore_related, lines 176-182: a recursive call returned; merge its submaps.
ReturnToCaller ==
  /\ Len(stack) >= 2 /\ Top.pc = "ret"
  /\ LET caller == stack[Len(stack) - 1]
         merged == [caller EXCEPT
                      !.article_submap = Update(@, Top.article_submap),
                      !.graph_submap = MergeGraph(@, Top.graph_submap),
                      !.skipped = IF Top.missing THEN @ + 1 ELSE @,
                      !.idx = @ + 1]
     IN stack' = Append(SubSeq(stack, 1, Len(stack) - 2), merged)
  /\ UNCHANGED <<inputs, history1, disk, article_map, seedOrder, keyOrder,
                 expanded_map, graph, seedIdx, pc, fetchCount, refetched,
                 fetchFailed, contribs, deepTargets>>

\* main, lines 303-309: the call for a seed returned; merge its submaps.
ReturnToMain ==
  /\ Len(stack) = 1 /\ Top.pc = "ret"
  /\ expanded_map' = Update(expanded_map, Top.article_submap)
  /\ graph' = MergeGraph(graph, Top.graph_submap)
  /\ seedIdx' = seedIdx + 1
  /\ stack' = <<>>
  /\ UNCHANGED <<inputs, history1, disk, article_map, seedOrder, keyOrder, pc,
                 fetchCount, refetched, fetchFailed, contribs, deepTargets>>

\* main, lines 322-338: collapse the edge lists and save both maps.
Aggregate ==
  /\ pc = "loop" /\ stack = <<>> /\ seedIdx > Len(seedOrder)
  /\ graph' = Dedup(graph)
  /\ pc' = "done"
  /\ UNCHANGED <<inputs, history1, disk, article_map, seedOrder, keyOrder,
                 expanded_map, seedIdx, stack, fetchCount, refetched,
                 fetchFailed, contribs, deepTargets>>

Next ==
  \/ MainSkip
  \/ MainCall
  \/ Recurse
  \/ Finish
  \/ ReturnToCaller
  \/ ReturnToMain
  \/ Aggregate

Spec == Init /\ [][Next]_vars

\* The interpreter always takes the program's next step.
FairSpec == Spec /\ WF_vars(Next)

\* A second run of main over the registry the first run wrote: the expanded
\* map is loaded as article_map (lines 253-272), the flag is off, the local
\* store is as the first run left it.
Rerun ==
  /\ pc = "done" /\ run = 1
  /\ run' = 2
  /\ graph1' = graph
  /\ map1' = expanded_map
  /\ restart' = FALSE
  /\ article_map' = expanded_map
  /\ seedOrder' = keyOrder
  /\ expanded_map' = expanded_map
  /\ graph' = InitGraph(expanded_map)
  /\ seedIdx' = 1
  /\ pc' = "loop"
  /\ fetchCount' = [n \in Names |-> 0]
  /\ refetched' = {}
  /\ fetchFailed' = FALSE
  /\ contribs' = [n \in Names |-> {}]
  /\ deepTargets' = {}
  /\ UNCHANGED <<web, depth, disk, keyOrder, stack>>

NextRerun == Next \/ Rerun

SpecRerun == Init /\ [][NextRerun]_vars

Done == pc = "done"

\* ------------------------------------------------------------------------
\* Vocabulary of the properties
\* ------------------------------------------------------------------------
Frames == {stack[i] : i \in DOMAIN stack}
EdgeSet(g, k) == BagToSet(g[k])
NoDuplicate(b) == \A e \in BagToSet(b) : CopiesIn(e, b) = 1
NoDuplicates(g) == \A k \in DOMAIN g : NoDuplicate(g[k])
Seeds == DOMAIN article_map
Registered == DOMAIN expanded_map
\* The names a registered identifier's local file lists (none if absent).
LinkNames(n) ==
  IF n \in Registered THEN BagToSet(NamesOf(disk[expanded_map[n].path].links)) ELSE {}
HasContent(n) == n \in Registered /\ disk[expanded_map[n].path].exists

\* ------------------------------------------------------------------------
\* C1: for every depth d >= 0, either flag and every reference graph, the
\* calls terminate; the i-th nested call runs with depth d-(i-1) >= 0, so
\* nesting never exceeds d levels, and a call with depth 0 calls nobody.
\* ------------------------------------------------------------------------
DepthBounded ==
  \A i \in DOMAIN stack :
    /\ stack[i].depth = depth - (i - 1)
    /\ stack[i].depth >= 0
    /\ (stack[i].depth = 0 => stack[i].calls = 0)
C1_Terminates == []DepthBounded /\ <>Done

\* A cycle of references followed down to the last level.
C1_Witness ==
  /\ depth >= 2 /\ Len(stack) = depth + 1
  /\ \E i, j \in DOMAIN stack : i < j /\ stack[i].article = stack[j].article

\* ------------------------------------------------------------------------
\* C2: a merge of a returned graph submap keeps, for every key the
\* accumulator had, all its references and adds those of the submap; the
\* final entry of an identifier is the union of what all its visits read.
\* ------------------------------------------------------------------------
MergeKeepsAndGains ==
  (stack # <<>> /\ Top.pc = "ret") =>
    LET delta == Top.graph_submap
        n == Len(stack)
        acc == IF n >= 2 THEN stack[n - 1].graph_submap ELSE graph
        accNew == IF n >= 2 THEN stack'[n - 1].graph_submap ELSE graph'
    IN /\ DOMAIN accNew = DOMAIN acc \cup DOMAIN delta
       /\ \A k \in DOMAIN acc :
            EdgeSet(accNew, k) =
              EdgeSet(acc, k) \cup (IF k \in DOMAIN delta THEN EdgeSet(delta, k) ELSE {})
FinalIsUnion ==
  Done => \A k \in DOMAIN graph :
            EdgeSet(graph, k) = UNION {c[2] : c \in contribs[k]}
C2_UnionMerge == [][MergeKeepsAndGains]_vars /\ []FinalIsUnion

\* An identifier visited from two callers that read different references.
C2_Witness ==
  /\ Done
  /\ \E k \in DOMAIN graph : \E c1, c2 \in contribs[k] :
       /\ c1[1] # c2[1]
       /\ c1[2] \ c2[2] # {} /\ c2[2] \ c1[2] # {}

\* ------------------------------------------------------------------------
\* C3: no edge list of a returned graph submap, and none of the final
\* graph, holds an identifier twice.
\* ------------------------------------------------------------------------
C3_NoDuplicateEdges ==
  /\ \A f \in Frames : f.pc = "ret" => NoDuplicates(f.graph_submap)
  /\ Done => NoDuplicates(graph)

\* A call returns whose page lists one reference twice and that merged the
\* submaps of its recursive calls.
C3_Witness ==
  /\ stack # <<>> /\ Top.pc = "ret" /\ Top.calls >= 2
  /\ \E e \in BagToSet(NamesOf(Top.outbound_links)) :
       CopiesIn(e, NamesOf(Top.outbound_links)) >= 2

\* ------------------------------------------------------------------------
\* C4: a call that finds its local copy missing returns a graph submap with
\* no key and calls nobody; the caller still calls every link of its page
\* and main still handles every seed.
\* ------------------------------------------------------------------------
C4_SkipOnMissing ==
  /\ \A f \in Frames :
       f.missing => f.pc = "ret" /\ DOMAIN f.graph_submap = {} /\ f.calls = 0
  /\ \A i \in DOMAIN stack :
       /\ stack[i].idx = (IF i < Len(stack) THEN stack[i].calls ELSE stack[i].calls + 1)
       /\ (stack[i].pc = "ret" /\ ~stack[i].missing /\ stack[i].depth > 0)
            => stack[i].calls = Len(stack[i].outbound_links)
  /\ Done => seedIdx = Len(seedOrder) + 1

\* The first link's fetch failed and left no file; the second link is
\* expanded all the same.
C4_Witness ==
  /\ fetchFailed /\ Len(stack) >= 2
  /\ stack[Len(stack) - 1].skipped = 1
  /\ stack[Len(stack) - 1].idx = 2
  /\ ~Top.missing /\ Top.pc = "ret"

\* ------------------------------------------------------------------------
\* C5: with the flag off get_article runs at most once per identifier,
\* never for a registered identifier (so never for a seed), and an
\* identifier is registered before it is fetched or expanded.
\* ------------------------------------------------------------------------
C5_FetchOnce ==
  /\ \A f \in Frames : f.article \in Registered
  /\ \A n \in Names : fetchCount[n] > 0 => n \in Registered
  /\ ~restart =>
       /\ \A n \in Names : fetchCount[n] <= 1
       /\ refetched = {}
       /\ \A s \in Seeds : fetchCount[s] = 0

\* A fetched identifier is reached again and not fetched again.
C5_Witness ==
  /\ ~restart /\ stack # <<>>
  /\ ~Top.article_unseen /\ Top.article \notin Seeds
  /\ fetchCount[Top.article] = 1

\* ------------------------------------------------------------------------
\* C6 (as stated): the second run over the first run's registry writes the
\* first run's graph again and fetches nothing.
\* ------------------------------------------------------------------------
SameGraph(g, h) ==
  /\ DOMAIN g = DOMAIN h
  /\ \A k \in DOMAIN g : EdgeSet(g, k) = EdgeSet(h, k)
C6_Original ==
  (run = 2 /\ Done) =>
    /\ SameGraph(graph, graph1)
    /\ NoDuplicates(graph)
    /\ \A n \in Names : fetchCount[n] = 0

\* C6 (amended): the second run fetches no identifier of the first run's
\* registry, its graph has a key for every identifier of that registry and
\* no duplicate edge; with maximum depth 0 it is the first run's graph and
\* nothing is fetched.
C6_Amended ==
  run = 2 =>
    /\ \A n \in DOMAIN map1 : fetchCount[n] = 0
    /\ Done =>
         /\ DOMAIN map1 \subseteq DOMAIN graph
         /\ NoDuplicates(graph)
         /\ depth = 0 =>
              /\ SameGraph(graph, graph1)
              /\ \A n \in Names : fetchCount[n] = 0

\* The second run has keys the first had not and fetched a new identifier.
C6_Witness ==
  /\ run = 2 /\ Done
  /\ DOMAIN graph # DOMAIN graph1
  /\ \E n \in Names : fetchCount[n] > 0

\* ------------------------------------------------------------------------
\* C7 (as stated): with maximum depth 0 the final registry is the seed
\* registry plus one entry per identifier a seed references, and none of the
\* new identifiers is a key of the graph.
\* ------------------------------------------------------------------------
DirectReferences == UNION {EdgeSet(graph, s) : s \in Seeds \cap DOMAIN graph}
C7_Original ==
  (depth = 0 /\ Done /\ run = 1) =>
    /\ Registered = Seeds \cup DirectReferences
    /\ \A n \in DirectReferences \ Seeds : n \notin DOMAIN graph

\* C7 (amended): with maximum depth 0 no recursive call is made and the
\* registry stays the seed registry; the final graph has the seeds as keys,
\* each with the names its local file lists, and the identifiers the seeds
\* reference are neither registered nor fetched.
C7_Amended ==
  (depth = 0 /\ run = 1) =>
    /\ expanded_map = article_map
    /\ Len(stack) <= 1
    /\ \A n \in Names \ Seeds : fetchCount[n] = 0
    /\ Done =>
         /\ DOMAIN graph = Seeds
         /\ \A s \in Seeds : EdgeSet(graph, s) = LinkNames(s)

\* A seed references an identifier that is not a seed.
C7_Witness ==
  /\ depth = 0 /\ Done /\ run = 1
  /\ DirectReferences \ Seeds # {}

\* ------------------------------------------------------------------------
\* C8 (as stated): at the end every key and every edge target of the graph
\* is registered.
\* ------------------------------------------------------------------------
C8_Original ==
  (Done /\ run = 1) =>
    \A k \in DOMAIN graph :
      k \in Registered /\ EdgeSet(graph, k) \subseteq Registered

\* C8 (amended): at the end every key of the graph, and every edge target
\* listed by a call that ran with depth > 0, is registered; a target listed
\* only by calls with depth 0 is not.
C8_Amended ==
  (Done /\ run = 1) =>
    /\ DOMAIN graph \subseteq Registered
    /\ deepTargets \subseteq Registered
    /\ \A k \in DOMAIN graph :
         \A n \in EdgeSet(graph, k) : n \notin deepTargets \cup Seeds => n \notin Registered

\* Below the horizon everything is registered, at the horizon a target is not.
C8_Witness ==
  /\ Done /\ run = 1 /\ depth >= 1
  /\ deepTargets \ Seeds # {}
  /\ \E k \in DOMAIN graph : EdgeSet(graph, k) \ Registered # {}

\* ------------------------------------------------------------------------
\* C9: no step removes a key of the working registry or changes the path or
\* the locator recorded for a key.
\* ------------------------------------------------------------------------
RegistryKept ==
  \A n \in DOMAIN expanded_map :
    n \in DOMAIN expanded_map' /\ expanded_map'[n] = expanded_map[n]
C9_RegistryStable == [][RegistryKept]_vars

\* A registered identifier is fetched again, from another locator than the
\* one recorded.
C9_Witness ==
  /\ restart /\ stack # <<>>
  /\ ~Top.article_unseen
  /\ Top.article_url # expanded_map[Top.article].link
  /\ fetchCount[Top.article] >= 2

\* ------------------------------------------------------------------------
\* C10: with the flag off and every fetch answered 200, the final graph is
\* the frontier expansion of the seeds: its keys are the seeds and the
\* identifiers with a local file within `depth` hops of a seed that has a
\* local file, and each key has the names its local file lists.
\* ------------------------------------------------------------------------
RECURSIVE Level(_)
Level(k) ==
  IF k = 0 THEN {s \in Seeds : HasContent(s)}
  ELSE UNION {LinkNames(n) : n \in {m \in Level(k - 1) : HasContent(m)}}
Within(d) == UNION {Level(k) : k \in 0..d}
FrontierKeys == Seeds \cup {n \in Within(depth) : HasContent(n)}
FrontierEdges(k) == IF k \in Within(depth) /\ HasContent(k) THEN LinkNames(k) ELSE {}
C10_FrontierEquivalent ==
  (Done /\ run = 1 /\ ~restart /\ ~fetchFailed) =>
    /\ DOMAIN graph = FrontierKeys
    /\ \A k \in DOMAIN graph : EdgeSet(graph, k) = FrontierEdges(k)
====
